---- MODULE Spec2Model ----
(***************************************************************************)
(* A model of the aimakerspace text splitters (text_utils.py) and of the   *)
(* in-memory vector store (vectordatabase.py).                             *)
(*                                                                         *)
(* A text is a sequence of one-character strings; a chunk is a text; the   *)
(* output of a splitter is a sequence of chunks.                           *)
(***************************************************************************)
EXTENDS Integers, Sequences, FiniteSets, TLC

VARIABLES
    \* ---- the splitters (text_utils.py)
    text,            \* the input of split()
    chunk_size,      \* self.chunk_size
    chunk_overlap,   \* self.chunk_overlap
    chunks,          \* what split() returned
    phase,           \* which operation has run
    texts,           \* the input of split_texts_with_metadata()
    metadatas,       \* its optional metadata list (None when absent)
    chunks_with_metadata,  \* what split_texts_with_metadata() returned
    merge,           \* the locals of the running _merge_splits() call
    \* ---- the vector store (vectordatabase.py)
    vectors,         \* self.vectors: the items of the dict, in the dict's order
    metadata,        \* self.metadata: a function from its keys
    insert_log,      \* history: the arguments of every insert() so far
    returned,        \* the last call and what it returned
    \* ---- abuild_from_list and abuild_from_list_with_metadata
    build_pc,        \* where the build coroutine is
    build_call,      \* the build called and its argument
    embeddings,      \* what the awaited async_get_embeddings returned
    embedding_calls, \* the calls the build made to the embedding model
    store_at_call,   \* history: the store when the build was called
    embedding_model, \* the embedding model: the vector of each text
    \* ---- threads inside the store
    writer,          \* the thread in insert()
    reader           \* the thread in search()

dbVars == <<vectors, metadata, insert_log, returned>>
buildVars == <<build_pc, build_call, embeddings, embedding_calls, store_at_call,
               embedding_model>>
threadVars == <<writer, reader>>

splitVars == <<text, chunk_size, chunk_overlap, chunks, phase>>
metaVars == <<texts, metadatas, chunks_with_metadata>>
mergeVars == <<merge>>

vars == <<splitVars, metaVars, mergeVars, dbVars, buildVars, threadVars>>

\* ------------------------------------------------------------------ bounds

\* longest input text of split()
MaxLen == 5
\* largest chunk_size
MaxSize == 3
\* most texts of one build of the store
MaxBatch == 2
\* most source texts of split_texts_with_metadata()
MaxTexts == 2
\* longest source text of split_texts_with_metadata()
MaxDocLen == 2
\* most insert() calls on one store
MaxInserts == 3
\* largest k of a search()
MaxK == 4

\* the characters of the input texts: two letters and the characters the
\* default separators are made of
NL == "\n"
SP == " "
DOT == "."
Alphabet == {"a", "b", NL, SP, DOT}

TextsUpTo(n) == UNION {[1..k -> Alphabet] : k \in 0..n}

\* the characters of the source texts of split_texts_with_metadata()
DocAlphabet == {"a", SP}

DocsUpTo(n) == UNION {[1..k -> DocAlphabet] : k \in 0..n}

\* the metadata a caller supplies for a source text
SourceMetadata == {[source |-> "a.pdf"], [source |-> "b.pdf"]}

\* an Optional value is a sequence of at most one element
None == <<>>
Some(x) == <<x>>

\* ------------------------------------------------------------------ helpers

Min(a, b) == IF a < b THEN a ELSE b
Max(a, b) == IF a > b THEN a ELSE b

\* range(start, stop, step) for step > 0
RECURSIVE range(_, _, _)
range(start, stop, step) ==
    IF start >= stop THEN <<>>
    ELSE <<start>> \o range(start + step, stop, step)

\* text[i : j] of Python, on 0-based offsets, clipped to the text
Slice(t, i, j) == SubSeq(t, i + 1, Min(j, Len(t)))

\* sum(len(c) for c in pieces)
RECURSIVE SumLen(_)
SumLen(pieces) ==
    IF pieces = <<>> THEN 0 ELSE Len(Head(pieces)) + SumLen(Tail(pieces))

\* max(len(s) for s in splits) if splits else 0
RECURSIVE MaxPieceLen(_)
MaxPieceLen(pieces) ==
    IF pieces = <<>> THEN 0
    ELSE Max(Len(Head(pieces)), MaxPieceLen(Tail(pieces)))

\* separator.join(pieces)
RECURSIVE Join(_, _)
Join(separator, pieces) ==
    IF pieces = <<>> THEN <<>>
    ELSE IF Len(pieces) = 1 THEN pieces[1]
    ELSE pieces[1] \o separator \o Join(separator, Tail(pieces))

\* does separator occur in t at (1-based) index i
OccursAt(t, separator, i) ==
    /\ i + Len(separator) - 1 <= Len(t)
    /\ \A j \in 1..Len(separator) : t[i + j - 1] = separator[j]

\* str.split(separator) for a non-empty separator: the text between the
\* leftmost non-overlapping occurrences; cur is the piece being read
RECURSIVE StrSplit(_, _, _, _)
StrSplit(t, separator, i, cur) ==
    IF i > Len(t) THEN <<cur>>
    ELSE IF OccursAt(t, separator, i)
         THEN <<cur>> \o StrSplit(t, separator, i + Len(separator), <<>>)
         ELSE StrSplit(t, separator, i + 1, Append(cur, t[i]))

\* ----------------------------------------------- CharacterTextSplitter

\* CharacterTextSplitter.split
CharacterTextSplitter_split(t, size, overlap) ==
    LET starts == range(0, Len(t), size - overlap)
    IN  [n \in 1..Len(starts) |-> Slice(t, starts[n], starts[n] + size)]

\* ----------------------------------------------- RecursiveTextSplitter

\* the default separator list: paragraphs, lines, sentences, words, characters
DefaultSeparators == << <<NL, NL>>, <<NL>>, <<DOT, SP>>, <<SP>>, <<>> >>

\* self.separators = separators or [default]
Separators(separators) ==
    IF separators = <<>> THEN DefaultSeparators ELSE separators

\* RecursiveTextSplitter._split_text_with_separator
_split_text_with_separator(t, separator) ==
    IF separator # <<>> THEN StrSplit(t, separator, 1, <<>>)
    ELSE [n \in 1..Len(t) |-> <<t[n]>>]

\* the overlap loop with the test after the insert: the item that goes over
\* chunk_overlap is kept
RECURSIVE OverlapChunks_keeping_the_overflow(_, _, _, _, _, _)
OverlapChunks_keeping_the_overflow(current_chunk, j, separator, overlap, overlap_length, overlap_chunks) ==
    IF j = 0 THEN overlap_chunks
    ELSE LET len == overlap_length + Len(current_chunk[j]) + Len(separator)
         IN  IF len > overlap THEN <<current_chunk[j]>> \o overlap_chunks
             ELSE OverlapChunks_keeping_the_overflow(
                      current_chunk, j - 1, separator, overlap, len,
                      <<current_chunk[j]>> \o overlap_chunks)

\* the overlap loop of _merge_splits: walk current_chunk from its end and
\* keep the items while their length, one separator each, fits chunk_overlap
RECURSIVE OverlapChunks(_, _, _, _, _, _)
OverlapChunks(current_chunk, j, separator, overlap, overlap_length, overlap_chunks) ==
    IF j = 0 THEN overlap_chunks
    ELSE LET len == overlap_length + Len(current_chunk[j]) + Len(separator)
         IN  IF len > overlap THEN overlap_chunks
             ELSE OverlapChunks(current_chunk, j - 1, separator, overlap, len,
                                <<current_chunk[j]>> \o overlap_chunks)

\* the main loop of _merge_splits from split number n on
RECURSIVE MergeLoop(_, _, _, _, _, _, _, _)
MergeLoop(splits, n, separator, size, overlap, out, current_chunk, current_length) ==
    IF n > Len(splits) THEN
        IF current_chunk # <<>> THEN Append(out, Join(separator, current_chunk))
        ELSE out
    ELSE
        LET split == splits[n]
            split_len == Len(split)
            closes == /\ current_length + split_len + Len(separator) > size
                      /\ current_chunk # <<>>
            out1 == IF closes THEN Append(out, Join(separator, current_chunk))
                    ELSE out
            chunk1 == IF closes
                      THEN OverlapChunks(current_chunk, Len(current_chunk),
                                         separator, overlap, 0, <<>>)
                      ELSE current_chunk
            length1 == IF closes
                       THEN SumLen(chunk1) + Len(separator) * Max(0, Len(chunk1) - 1)
                       ELSE current_length
            chunk2 == Append(chunk1, split)
            length2 == length1 + split_len
                       + (IF chunk2 # <<>> THEN Len(separator) ELSE 0)
        IN  MergeLoop(splits, n + 1, separator, size, overlap, out1, chunk2, length2)

\* _merge_splits without its last step: the remaining chunk is not added
_merge_splits_without_remaining(splits, separator, size, overlap) ==
    LET out == MergeLoop(splits, 1, separator, size, overlap, <<>>, <<>>, 0)
    IN  SubSeq(out, 1, Len(out) - 1)

\* RecursiveTextSplitter._merge_splits
_merge_splits(splits, separator, size, overlap) ==
    MergeLoop(splits, 1, separator, size, overlap, <<>>, <<>>, 0)

\* RecursiveTextSplitter.split of a splitter constructed with `separators`.
\* The loop over the separators returns in its first iteration.
RECURSIVE RecursiveTextSplitter_split(_, _, _, _)
RecursiveTextSplitter_split(t, separators, size, overlap) ==
    IF separators = <<>> THEN <<t>>
    ELSE
        LET separator == separators[1]
            splits == _split_text_with_separator(t, separator)
            RECURSIVE good_splits(_)
            good_splits(n) ==
                IF n > Len(splits) THEN <<>>
                ELSE (IF Len(splits[n]) <= size THEN <<splits[n]>>
                      ELSE RecursiveTextSplitter_split(
                               splits[n], Separators(Tail(separators)), size, overlap))
                     \o good_splits(n + 1)
        IN  IF MaxPieceLen(splits) <= size
            THEN _merge_splits(splits, separator, size, overlap)
            ELSE IF Len(separators) = 1
            THEN _merge_splits(splits, separator, size, overlap)
            ELSE _merge_splits(good_splits(1), separator, size, overlap)

\* the calls of _merge_splits that split(t) makes, its own and those of the
\* subsplitters it constructs: the arguments of each
RECURSIVE merge_splits_calls(_, _, _, _)
merge_splits_calls(t, separators, size, overlap) ==
    IF separators = <<>> THEN {}
    ELSE
        LET separator == separators[1]
            splits == _split_text_with_separator(t, separator)
            RECURSIVE good_splits(_)
            good_splits(n) ==
                IF n > Len(splits) THEN <<>>
                ELSE (IF Len(splits[n]) <= size THEN <<splits[n]>>
                      ELSE RecursiveTextSplitter_split(
                               splits[n], Separators(Tail(separators)), size, overlap))
                     \o good_splits(n + 1)
            of_subsplitters ==
                UNION {merge_splits_calls(
                           splits[n], Separators(Tail(separators)), size, overlap) :
                          n \in {m \in 1..Len(splits) : Len(splits[m]) > size}}
        IN  IF MaxPieceLen(splits) <= size
            THEN {[splits |-> splits, separator |-> separator]}
            ELSE IF Len(separators) = 1
            THEN {[splits |-> splits, separator |-> separator]}
            ELSE of_subsplitters
                     \cup {[splits |-> good_splits(1), separator |-> separator]}

\* ----------------------------------------------- split_texts_with_metadata

\* [{"source": f"document_{i}"} for i in range(len(texts))]
DefaultMetadatas(n) == [i \in 1..n |-> [source |-> <<"document_", i - 1>>]]

\* the chunks lists written one after the other
RECURSIVE Flatten(_)
Flatten(lists) ==
    IF lists = <<>> THEN <<>> ELSE Head(lists) \o Flatten(Tail(lists))

\* the body of the loop over one source with chunk_idx counted from 1
chunks_of_source_from_one(cks, source_metadata) ==
    [n \in 1..Len(cks) |->
        [text |-> cks[n],
         metadata |-> ("chunk_index" :> n) @@ ("total_chunks" :> Len(cks))
                      @@ source_metadata]]

\* the body of the loop over one source: metadata.copy() with chunk_index and
\* total_chunks set, for each chunk of enumerate(chunks)
chunks_of_source(cks, source_metadata) ==
    [n \in 1..Len(cks) |->
        [text |-> cks[n],
         metadata |-> ("chunk_index" :> (n - 1)) @@ ("total_chunks" :> Len(cks))
                      @@ source_metadata]]

\* CharacterTextSplitter.split_texts_with_metadata, lengths matching
CharacterTextSplitter_split_texts_with_metadata(txts, metas, size, overlap) ==
    Flatten([s \in 1..Len(txts) |->
        chunks_of_source(CharacterTextSplitter_split(txts[s], size, overlap),
                         metas[s])])

\* RecursiveTextSplitter.split_texts_with_metadata, lengths matching
RecursiveTextSplitter_split_texts_with_metadata(txts, metas, size, overlap) ==
    Flatten([s \in 1..Len(txts) |->
        chunks_of_source(RecursiveTextSplitter_split(txts[s], Separators(<<>>),
                                                     size, overlap),
                         metas[s])])

\* ----------------------------------------------- VectorDatabase

\* a dict is the sequence of its items [key, value], in insertion order

\* key in d
DictHas(d, key) == \E n \in 1..Len(d) : d[n].key = key

\* d[key] for a key of d
DictAt(d, key) == d[CHOOSE n \in 1..Len(d) : d[n].key = key].value

\* d[key] = value: a present key keeps its place, a new key goes last
DictSet(d, key, value) ==
    IF DictHas(d, key)
    THEN [n \in 1..Len(d) |->
             IF d[n].key = key THEN [key |-> key, value |-> value] ELSE d[n]]
    ELSE Append(d, [key |-> key, value |-> value])

\* VectorDatabase.insert, line 23: self.vectors[key] = vector
insert_vector(d, key, vector) == DictSet(d, key, vector)

\* VectorDatabase.insert, lines 24-25: a metadata of None is not stored
insert_metadata(md, key, meta) ==
    IF meta # None THEN (key :> meta[1]) @@ md ELSE md

\* the empty dict {} that search() reports for a key without metadata
EmptyDict == [x \in {} |-> x]

Dot(a, b) == a[1] * b[1] + a[2] * b[2]

Sign(x) == IF x > 0 THEN 1 ELSE IF x < 0 THEN -1 ELSE 0

\* a score is a float: not-a-number, or a number
NaN == [nan |-> TRUE, value |-> 0]
Float(x) == [nan |-> FALSE, value |-> x]

\* a < b on floats: false when either is not-a-number
FloatLess(a, b) == ~a.nan /\ ~b.nan /\ a.value < b.value

\* a == b on floats: false when either is not-a-number
FloatEqual(a, b) == ~a.nan /\ ~b.nan /\ a.value = b.value

\* cosine_similarity of two vectors with coordinates in -1..1. For a vector
\* of norm zero the division is 0 / 0, which numpy evaluates to nan.
\* Otherwise the cosine c = dot / (norm_a * norm_b), irrational for some of
\* these vectors, is held as sign(c) * 4 * c^2: a whole number for them and
\* strictly increasing in c, so scores compare as the cosines do.
cosine_similarity(vector_a, vector_b) ==
    LET dot_product == Dot(vector_a, vector_b)
    IN  IF Dot(vector_a, vector_a) * Dot(vector_b, vector_b) = 0 THEN NaN
        ELSE Float((Sign(dot_product) * 4 * dot_product * dot_product)
                       \div (Dot(vector_a, vector_a) * Dot(vector_b, vector_b)))

\* one step of a stable sort by descending score: x goes before the first
\* item that scores less
RECURSIVE InsertDescending(_, _)
InsertDescending(sorted, x) ==
    IF sorted = <<>> THEN <<x>>
    ELSE IF FloatLess(Head(sorted).score, x.score)
         THEN <<x>> \o sorted
         ELSE <<Head(sorted)>> \o InsertDescending(Tail(sorted), x)

\* one step of a stable sort by ascending score
RECURSIVE InsertAscending(_, _)
InsertAscending(sorted, x) ==
    IF sorted = <<>> THEN <<x>>
    ELSE IF FloatLess(x.score, Head(sorted).score)
         THEN <<x>> \o sorted
         ELSE <<Head(sorted)>> \o InsertAscending(Tail(sorted), x)

RECURSIVE SortAscending(_)
SortAscending(items) ==
    IF items = <<>> THEN <<>>
    ELSE InsertAscending(SortAscending(SubSeq(items, 1, Len(items) - 1)),
                         items[Len(items)])

Reverse(items) == [n \in 1..Len(items) |-> items[Len(items) + 1 - n]]

\* sorted(scores, key=score)[::-1]: ascending, then reversed
sorted_then_reversed(items) == Reverse(SortAscending(items))

\* sorted(scores, key=score, reverse=True) of scores that are numbers:
\* descending, and stable (items of equal score keep the order they came in)
RECURSIVE sorted_reverse(_)
sorted_reverse(items) ==
    IF items = <<>> THEN <<>>
    ELSE InsertDescending(sorted_reverse(SubSeq(items, 1, Len(items) - 1)),
                          items[Len(items)])

\* the orders in which the items can be written
Orderings(items) ==
    {[n \in 1..Len(items) |-> items[p[n]]] :
        p \in {f \in [1..Len(items) -> 1..Len(items)] :
                  \A i, j \in 1..Len(items) : f[i] = f[j] => i = j}}

\* what sorted(scores, key=score, reverse=True) can return. With a
\* not-a-number among the scores the comparisons are no order and the result
\* is a permutation that depends on the sort's steps: any of them.
sorted_outcomes(items) ==
    IF \E n \in 1..Len(items) : items[n].score.nan
    THEN Orderings(items)
    ELSE {sorted_reverse(items)}

\* VectorDatabase.search: the values it can return
search(query_vector, k, return_metadata) ==
    LET scores == [n \in 1..Len(vectors) |->
                      [key |-> vectors[n].key,
                       score |-> cosine_similarity(query_vector, vectors[n].value)]]
        with_metadata(results) ==
            [n \in 1..Len(results) |->
                [key |-> results[n].key, score |-> results[n].score,
                 metadata |-> IF results[n].key \in DOMAIN metadata
                              THEN metadata[results[n].key] ELSE EmptyDict]]
    IN  {IF return_metadata
         THEN with_metadata(SubSeq(sorted, 1, Min(k, Len(sorted))))
         ELSE SubSeq(sorted, 1, Min(k, Len(sorted))) :
            sorted \in sorted_outcomes(scores)}

\* ------------------------------------------------------------------ actions

\* the parts of the state an operation of another component leaves alone
SplitIdle == UNCHANGED <<splitVars, metaVars, mergeVars>>
DbIdle == UNCHANGED dbVars
BuildIdle == UNCHANGED buildVars
ThreadsIdle == UNCHANGED threadVars

\* no _merge_splits() call is running
NoMerge ==
    [pc |-> "idle", splits |-> <<>>, separator |-> <<>>, n |-> 0,
     chunks |-> <<>>, current_chunk |-> <<>>, current_length |-> 0,
     closing |-> FALSE, closed |-> <<>>]

\* no splitter has run
InitSplitIdle ==
    /\ merge = NoMerge
    /\ text = <<>>
    /\ chunk_size = 1
    /\ chunk_overlap = 0
    /\ chunks = <<>>
    /\ phase = "constructed"
    /\ texts = <<>>
    /\ metadatas = None
    /\ chunks_with_metadata = <<>>

\* VectorDatabase.__init__
InitDb ==
    /\ vectors = <<>>
    /\ metadata = EmptyDict
    /\ insert_log = <<>>
    /\ returned = [op |-> "init"]

\* no build has been called
InitBuildIdle ==
    /\ build_pc = "idle"
    /\ build_call = [op |-> "none", items |-> <<>>]
    /\ embeddings = None
    /\ embedding_calls = [batch |-> 0, single |-> 0]
    /\ store_at_call = <<vectors, metadata>>
    /\ embedding_model = [key \in {} |-> key]

\* no thread is inside the store
InitThreadsIdle ==
    /\ writer = [pc |-> "idle"]
    /\ reader = [pc |-> "idle"]

\* ---- the splitters

InitSplit ==
    /\ text \in TextsUpTo(MaxLen)
    /\ chunk_size \in 1..MaxSize
    /\ chunk_overlap \in 0..(chunk_size - 1)
    /\ chunks = <<>>
    /\ phase = "constructed"
    /\ texts = <<>>
    /\ metadatas = None
    /\ chunks_with_metadata = <<>>
    /\ merge = NoMerge
    /\ InitDb /\ InitBuildIdle /\ InitThreadsIdle

\* splitter = CharacterTextSplitter(chunk_size, chunk_overlap); splitter.split(text)
CharacterSplit ==
    /\ phase = "constructed"
    /\ chunks' = CharacterTextSplitter_split(text, chunk_size, chunk_overlap)
    /\ phase' = "character"
    /\ UNCHANGED <<text, chunk_size, chunk_overlap, metaVars, mergeVars>>
    /\ DbIdle /\ BuildIdle /\ ThreadsIdle

\* splitter = RecursiveTextSplitter(chunk_size, chunk_overlap); splitter.split(text)
RecursiveSplit ==
    /\ phase = "constructed"
    /\ chunks' = RecursiveTextSplitter_split(text, Separators(<<>>),
                                             chunk_size, chunk_overlap)
    /\ phase' = "recursive"
    /\ UNCHANGED <<text, chunk_size, chunk_overlap, metaVars, mergeVars>>
    /\ DbIdle /\ BuildIdle /\ ThreadsIdle

NextSplit == CharacterSplit \/ RecursiveSplit

SpecSplit == InitSplit /\ [][NextSplit]_vars

\* ---- _merge_splits, one iteration of its loop at a time

\* a RecursiveTextSplitter and a text to split; the constructor does not
\* check chunk_overlap against chunk_size, and the two may be equal
InitMerge ==
    /\ text \in TextsUpTo(MaxLen)
    /\ chunk_size \in 1..MaxSize
    /\ chunk_overlap \in 0..chunk_size
    /\ chunks = <<>>
    /\ phase = "constructed"
    /\ texts = <<>>
    /\ metadatas = None
    /\ chunks_with_metadata = <<>>
    /\ merge = NoMerge
    /\ InitDb /\ InitBuildIdle /\ InitThreadsIdle

\* split(text) reaches one of its _merge_splits(splits, separator) calls:
\* chunks = [], current_chunk = [], current_length = 0
merge_splits_called ==
    /\ merge.pc = "idle"
    /\ \E call \in merge_splits_calls(text, Separators(<<>>),
                                       chunk_size, chunk_overlap) :
           merge' = [NoMerge EXCEPT !.pc = "loop", !.splits = call.splits,
                                    !.separator = call.separator, !.n = 1]
    /\ UNCHANGED <<splitVars, metaVars>>
    /\ DbIdle /\ BuildIdle /\ ThreadsIdle

\* one iteration of `for split in splits`
merge_splits_next_split ==
    /\ merge.pc = "loop"
    /\ merge.n <= Len(merge.splits)
    /\ LET split == merge.splits[merge.n]
           split_len == Len(split)
           separator == merge.separator
           closes == /\ merge.current_length + split_len + Len(separator)
                            > chunk_size
                     /\ merge.current_chunk # <<>>
           overlap_chunks == OverlapChunks(merge.current_chunk,
                                           Len(merge.current_chunk), separator,
                                           chunk_overlap, 0, <<>>)
           current_chunk == IF closes THEN overlap_chunks ELSE merge.current_chunk
           current_length ==
               IF closes
               THEN SumLen(current_chunk)
                        + Len(separator) * Max(0, Len(current_chunk) - 1)
               ELSE merge.current_length
       IN  merge' =
               [merge EXCEPT
                   !.n = @ + 1,
                   !.chunks = IF closes
                              THEN Append(@, Join(separator, merge.current_chunk))
                              ELSE @,
                   !.current_chunk = Append(current_chunk, split),
                   !.current_length =
                       current_length + split_len
                           + (IF Append(current_chunk, split) # <<>>
                              THEN Len(separator) ELSE 0),
                   !.closing = closes,
                   !.closed = IF closes THEN merge.current_chunk ELSE <<>>]
    /\ UNCHANGED <<splitVars, metaVars>>
    /\ DbIdle /\ BuildIdle /\ ThreadsIdle

\* the loop is over: the remaining chunk is added and chunks is returned
merge_splits_returns ==
    /\ merge.pc = "loop"
    /\ merge.n > Len(merge.splits)
    /\ merge' =
           [merge EXCEPT
               !.pc = "returned",
               !.chunks = IF merge.current_chunk # <<>>
                          THEN Append(@, Join(merge.separator, merge.current_chunk))
                          ELSE @,
               !.closing = FALSE,
               !.closed = <<>>]
    /\ UNCHANGED <<splitVars, metaVars>>
    /\ DbIdle /\ BuildIdle /\ ThreadsIdle

NextMerge ==
    \/ merge_splits_called
    \/ merge_splits_next_split
    \/ merge_splits_returns

SpecMerge == InitMerge /\ [][NextMerge]_vars

\* ---- split_texts_with_metadata

InitMeta ==
    /\ texts \in UNION {[1..k -> DocsUpTo(MaxDocLen)] : k \in 0..MaxTexts}
    /\ metadatas \in {None} \cup
           {Some(m) : m \in UNION {[1..k -> SourceMetadata] : k \in 0..MaxTexts}}
    /\ chunk_size \in 1..MaxSize
    /\ chunk_overlap \in 0..(chunk_size - 1)
    /\ chunks_with_metadata = <<>>
    /\ phase = "constructed"
    /\ text = <<>>
    /\ chunks = <<>>
    /\ merge = NoMerge
    /\ InitDb /\ InitBuildIdle /\ InitThreadsIdle

\* if metadatas is None: metadatas = [{"source": f"document_{i}"} ...]
EffectiveMetadatas ==
    IF metadatas = None THEN DefaultMetadatas(Len(texts)) ELSE metadatas[1]

\* CharacterTextSplitter(chunk_size, chunk_overlap)
\*     .split_texts_with_metadata(texts, metadatas)
CharacterSplitTextsWithMetadata ==
    /\ phase = "constructed"
    /\ IF Len(texts) # Len(EffectiveMetadatas)
       THEN /\ phase' = "ValueError"
            /\ UNCHANGED chunks_with_metadata
       ELSE /\ phase' = "character"
            /\ chunks_with_metadata' =
                   CharacterTextSplitter_split_texts_with_metadata(
                       texts, EffectiveMetadatas, chunk_size, chunk_overlap)
    /\ UNCHANGED <<text, chunk_size, chunk_overlap, chunks, texts, metadatas,
                   mergeVars>>
    /\ DbIdle /\ BuildIdle /\ ThreadsIdle

\* RecursiveTextSplitter(chunk_size, chunk_overlap)
\*     .split_texts_with_metadata(texts, metadatas)
RecursiveSplitTextsWithMetadata ==
    /\ phase = "constructed"
    /\ IF Len(texts) # Len(EffectiveMetadatas)
       THEN /\ phase' = "ValueError"
            /\ UNCHANGED chunks_with_metadata
       ELSE /\ phase' = "recursive"
            /\ chunks_with_metadata' =
                   RecursiveTextSplitter_split_texts_with_metadata(
                       texts, EffectiveMetadatas, chunk_size, chunk_overlap)
    /\ UNCHANGED <<text, chunk_size, chunk_overlap, chunks, texts, metadatas,
                   mergeVars>>
    /\ DbIdle /\ BuildIdle /\ ThreadsIdle

NextMeta == CharacterSplitTextsWithMetadata \/ RecursiveSplitTextsWithMetadata

SpecMeta == InitMeta /\ [][NextMeta]_vars

\* ---- the store, one caller at a time

InitStore == InitSplitIdle /\ InitDb /\ InitBuildIdle /\ InitThreadsIdle

\* VectorDatabase.insert(key, vector, metadata); meta is None or Some(dict)
insert(key, vector, meta) ==
    /\ Len(insert_log) < MaxInserts
    /\ vectors' = insert_vector(vectors, key, vector)
    /\ metadata' = insert_metadata(metadata, key, meta)
    /\ insert_log' = Append(insert_log,
                            [key |-> key, vector |-> vector, metadata |-> meta])
    /\ returned' = [op |-> "insert"]
    /\ SplitIdle /\ BuildIdle /\ ThreadsIdle

\* VectorDatabase.search(query_vector, k, return_metadata=...)
Search(query_vector, k, return_metadata) ==
    /\ \E results \in search(query_vector, k, return_metadata) :
           returned' = [op |-> "search", query_vector |-> query_vector, k |-> k,
                        return_metadata |-> return_metadata, results |-> results]
    /\ UNCHANGED <<vectors, metadata, insert_log>>
    /\ SplitIdle /\ BuildIdle /\ ThreadsIdle

\* retrieve_from_key written as self.vectors[key]: a missing key raises
retrieve_from_key_by_subscript(key) ==
    /\ returned' = IF DictHas(vectors, key)
                   THEN [op |-> "retrieve", key |-> key,
                         value |-> Some(DictAt(vectors, key))]
                   ELSE [op |-> "retrieve", key |-> key, raised |-> "TypeError"]
    /\ UNCHANGED <<vectors, metadata, insert_log>>
    /\ SplitIdle /\ BuildIdle /\ ThreadsIdle

\* VectorDatabase.retrieve_from_key(key): self.vectors.get(key, None)
retrieve_from_key(key) ==
    /\ returned' = [op |-> "retrieve", key |-> key,
                    value |-> IF DictHas(vectors, key)
                              THEN Some(DictAt(vectors, key)) ELSE None]
    /\ UNCHANGED <<vectors, metadata, insert_log>>
    /\ SplitIdle /\ BuildIdle /\ ThreadsIdle

\* the keys and vectors of the store's callers
Keys == {"k1", "k2", "k3"}
StoreKeys == {"k1", "k2"}
StoreVectors == {<<1, 0>>, <<0, 1>>}
RankVectors == {<<1, 0>>, <<-1, 0>>, <<0, 0>>}
QueryVectors == {<<1, 1>>, <<0, 0>>}
OptionalMetadata == {None} \cup {Some(m) : m \in SourceMetadata}

\* inserts with and without metadata, searches and lookups
NextStore ==
    \/ \E key \in StoreKeys, vector \in StoreVectors, meta \in OptionalMetadata :
           insert(key, vector, meta)
    \/ \E k \in 0..MaxK, return_metadata \in BOOLEAN :
           Search(<<1, 0>>, k, return_metadata)
    \/ \E key \in StoreKeys : retrieve_from_key(key)

SpecStore == InitStore /\ [][NextStore]_vars

\* inserts of vectors under three keys, and searches
NextRank ==
    \/ \E key \in Keys, vector \in RankVectors : insert(key, vector, None)
    \/ \E query_vector \in QueryVectors, k \in 0..MaxK :
           Search(query_vector, k, FALSE)

SpecRank == InitStore /\ [][NextRank]_vars

\* ---- building the store from a list: a coroutine that awaits the embeddings

\* the texts of a build's argument
TextsOf(call) ==
    IF call.op = "abuild_from_list" THEN call.items
    ELSE [n \in 1..Len(call.items) |-> call.items[n].text]

\* the metadata the build passes to insert() for item n
MetadataOf(call, n) ==
    IF call.op = "abuild_from_list" THEN None
    ELSE Some(call.items[n].metadata)

\* the embedding model is a function from texts to vectors
InitBuild ==
    /\ InitSplitIdle /\ InitDb /\ InitThreadsIdle
    /\ build_pc = "idle"
    /\ build_call = [op |-> "none", items |-> <<>>]
    /\ embeddings = None
    /\ embedding_calls = [batch |-> 0, single |-> 0]
    /\ store_at_call = <<vectors, metadata>>
    /\ embedding_model \in [StoreKeys -> StoreVectors]

\* a build that embeds its texts one by one, with get_embedding
build_one_text_at_a_time(op, items) ==
    /\ build_pc \in {"idle", "returned"}
    /\ Len(insert_log) + Len(items) <= MaxInserts
    /\ build_pc' = "awaiting"
    /\ build_call' = [op |-> op, items |-> items]
    /\ embedding_calls' = [batch |-> 0, single |-> Len(items)]
    /\ embeddings' = None
    /\ store_at_call' = <<vectors, metadata>>
    /\ UNCHANGED <<embedding_model>>
    /\ SplitIdle /\ DbIdle /\ ThreadsIdle

\* abuild_from_list(items) or abuild_from_list_with_metadata(items) up to
\* `await self.embedding_model.async_get_embeddings(texts)`: the one call to
\* the model, which HuggingFaceEmbeddingModel.async_get_embeddings passes to
\* get_embeddings and this to one model.encode of the whole list
build_call_embeddings(op, items) ==
    /\ build_pc \in {"idle", "returned"}
    /\ Len(insert_log) + Len(items) <= MaxInserts
    /\ build_pc' = "awaiting"
    /\ build_call' = [op |-> op, items |-> items]
    /\ embedding_calls' = [batch |-> 1, single |-> 0]
    /\ embeddings' = None
    /\ store_at_call' = <<vectors, metadata>>
    /\ UNCHANGED <<embedding_model>>
    /\ SplitIdle /\ DbIdle /\ ThreadsIdle

\* VectorDatabase.abuild_from_list(list_of_text), to its await
abuild_from_list(list_of_text) ==
    build_call_embeddings("abuild_from_list", list_of_text)

\* VectorDatabase.abuild_from_list_with_metadata(chunks), to its await
abuild_from_list_with_metadata(chunks_list) ==
    build_call_embeddings("abuild_from_list_with_metadata", chunks_list)

\* the awaited call resolves with one embedding for each text
async_get_embeddings_resolves ==
    /\ build_pc = "awaiting"
    /\ embeddings' = Some([n \in 1..Len(TextsOf(build_call)) |->
                              embedding_model[TextsOf(build_call)[n]]])
    /\ build_pc' = "resolved"
    /\ UNCHANGED <<build_call, embedding_calls, store_at_call, embedding_model>>
    /\ SplitIdle /\ DbIdle /\ ThreadsIdle

\* for text, embedding in zip(list, embeddings): self.insert(...), from item n on
RECURSIVE InsertAll(_, _, _, _)
InsertAll(store, call, vecs, n) ==
    IF n > Min(Len(call.items), Len(vecs)) THEN store
    ELSE InsertAll(
             [vectors |-> insert_vector(store.vectors, TextsOf(call)[n], vecs[n]),
              metadata |-> insert_metadata(store.metadata, TextsOf(call)[n],
                                           MetadataOf(call, n)),
              insert_log |-> Append(store.insert_log,
                                    [key |-> TextsOf(call)[n], vector |-> vecs[n],
                                     metadata |-> MetadataOf(call, n)])],
             call, vecs, n + 1)

\* the coroutine resumes: the loop of inserts, then `return self`
build_inserts_and_returns ==
    /\ build_pc = "resolved"
    /\ LET store == InsertAll([vectors |-> vectors, metadata |-> metadata,
                               insert_log |-> insert_log],
                              build_call, embeddings[1], 1)
       IN  /\ vectors' = store.vectors
           /\ metadata' = store.metadata
           /\ insert_log' = store.insert_log
    /\ returned' = [op |-> "build"]
    /\ build_pc' = "returned"
    /\ UNCHANGED <<build_call, embeddings, embedding_calls, store_at_call,
                   embedding_model>>
    /\ SplitIdle /\ ThreadsIdle

BuildChunks == [text : StoreKeys, metadata : SourceMetadata]

\* builds, with lookups by other callers of the event loop in between
NextBuild ==
    \/ \E list_of_text \in UNION {[1..n -> StoreKeys] : n \in 0..MaxBatch} :
           abuild_from_list(list_of_text)
    \/ \E chunks_list \in UNION {[1..n -> BuildChunks] : n \in 0..MaxBatch} :
           abuild_from_list_with_metadata(chunks_list)
    \/ async_get_embeddings_resolves
    \/ build_inserts_and_returns
    \/ \E key \in StoreKeys : retrieve_from_key(key)

SpecBuild == InitBuild /\ [][NextBuild]_vars

\* ---- the store, a writing thread and a reading thread

\* insert(key, vector, metadata), first statement: self.vectors[key] = vector
insert_sets_vector(key, vector, meta) ==
    /\ writer.pc = "idle"
    /\ Len(insert_log) < MaxInserts
    /\ vectors' = insert_vector(vectors, key, vector)
    /\ insert_log' = Append(insert_log,
                            [key |-> key, vector |-> vector, metadata |-> meta])
    /\ writer' = [pc |-> "metadata", key |-> key, metadata |-> meta]
    /\ UNCHANGED <<metadata, returned, reader>>
    /\ SplitIdle /\ BuildIdle

\* insert, second statement: if metadata is not None: self.metadata[key] = metadata
insert_sets_metadata ==
    /\ writer.pc = "metadata"
    /\ metadata' = insert_metadata(metadata, writer.key, writer.metadata)
    /\ writer' = [pc |-> "idle"]
    /\ UNCHANGED <<vectors, insert_log, returned, reader>>
    /\ SplitIdle /\ BuildIdle

\* search(query_vector, k): the comprehension starts to iterate over
\* self.vectors.items(); the iterator notes the size of the dict
search_begins(query_vector, k) ==
    /\ reader.pc = "idle"
    /\ reader' = [pc |-> "iterating", query_vector |-> query_vector, k |-> k,
                  size |-> Len(vectors), pos |-> 0, scores |-> <<>>, used |-> <<>>]
    /\ UNCHANGED <<dbVars, writer>>
    /\ SplitIdle /\ BuildIdle

\* the iterator is asked for its next item: it raises when the dict has
\* changed size, yields the item at its position (scored with the vector the
\* dict holds now), or ends the loop; then sorted(...)[:k] is the result
search_next ==
    /\ reader.pc = "iterating"
    /\ IF Len(vectors) # reader.size THEN reader' = [pc |-> "RuntimeError"]
       ELSE IF reader.pos < Len(vectors)
       THEN LET item == vectors[reader.pos + 1]
            IN  reader' =
                    [reader EXCEPT
                        !.pos = @ + 1,
                        !.scores = Append(@, [key |-> item.key,
                                              score |-> cosine_similarity(
                                                  reader.query_vector, item.value)]),
                        !.used = Append(@, item)]
       ELSE \E sorted \in sorted_outcomes(reader.scores) :
                reader' = [pc |-> "done", k |-> reader.k, used |-> reader.used,
                           results |-> SubSeq(sorted, 1, Min(reader.k, Len(sorted)))]
    /\ UNCHANGED <<dbVars, writer>>
    /\ SplitIdle /\ BuildIdle

\* the reading thread's retrieve_from_key(key): one dict.get
reader_retrieves(key) ==
    /\ reader.pc = "idle"
    /\ returned' = [op |-> "retrieve", key |-> key,
                    value |-> IF DictHas(vectors, key)
                              THEN Some(DictAt(vectors, key)) ELSE None]
    /\ UNCHANGED <<vectors, metadata, insert_log, writer, reader>>
    /\ SplitIdle /\ BuildIdle

\* the steps of the two threads, in any order
NextThreads ==
    \/ \E key \in StoreKeys, vector \in StoreVectors, meta \in OptionalMetadata :
           insert_sets_vector(key, vector, meta)
    \/ insert_sets_metadata
    \/ \E k \in 1..MaxK : search_begins(<<1, 0>>, k)
    \/ search_next
    \/ \E key \in StoreKeys : reader_retrieves(key)

SpecThreads == InitStore /\ [][NextThreads]_vars

\* ------------------------------------------------------------------ properties of the splitters

\* the chunks written one after the other
Concat(cs) == Join(<<>>, cs)

\* a is b with some elements left out
RECURSIVE IsSubsequence(_, _)
IsSubsequence(a, b) ==
    IF a = <<>> THEN TRUE
    ELSE IF b = <<>> THEN FALSE
    ELSE IF Head(a) = Head(b) THEN IsSubsequence(Tail(a), Tail(b))
    ELSE IsSubsequence(a, Tail(b))

\* the characters of t that belong to no occurrence of a default separator:
\* not a newline, not a space, not a period that a space follows
IsSeparatorChar(t, i) ==
    \/ t[i] = NL
    \/ t[i] = SP
    \/ (t[i] = DOT /\ i < Len(t) /\ t[i + 1] = SP)

RECURSIVE KeptFrom(_, _)
KeptFrom(t, i) ==
    IF i > Len(t) THEN <<>>
    ELSE (IF IsSeparatorChar(t, i) THEN <<>> ELSE <<t[i]>>) \o KeptFrom(t, i + 1)

NonSeparatorChars(t) == KeptFrom(t, 1)

\* the least index p >= from at which c occurs in t as a contiguous
\* substring, 0 when there is none
RECURSIVE FindFrom(_, _, _)
FindFrom(t, c, from) ==
    IF from + Len(c) - 1 > Len(t) THEN 0
    ELSE IF OccursAt(t, c, from) THEN from
    ELSE FindFrom(t, c, from + 1)

\* the chunks n.. are contiguous substrings of t, at non-decreasing places
\* starting no earlier than from
RECURSIVE InOrderSubstrings(_, _, _, _)
InOrderSubstrings(t, cs, n, from) ==
    IF n > Len(cs) THEN TRUE
    ELSE LET p == FindFrom(t, cs[n], from)
         IN  p # 0 /\ InOrderSubstrings(t, cs, n + 1, p)

\* C1: every chunk RecursiveTextSplitter.split returns has length <= chunk_size,
\* for every text and every chunk_size > chunk_overlap >= 0.
C1_ChunksWithinSize ==
    phase = "recursive" => \A n \in 1..Len(chunks) : Len(chunks[n]) <= chunk_size

\* C4: the chunks of RecursiveTextSplitter.split, taken in order, contain every
\* character of the input, separator characters included.
C4_NoCharacterDropped ==
    phase = "recursive" => IsSubsequence(text, Concat(chunks))

\* C4 as amended: the chunks of RecursiveTextSplitter.split, taken in order,
\* contain every character of the input that belongs to no separator
\* occurrence (no newline, no space, no period followed by a space), in the
\* order of the input; the separators at which the text is cut are dropped.
C4_NoNonSeparatorCharacterDropped ==
    phase = "recursive" => IsSubsequence(NonSeparatorChars(text), Concat(chunks))

\* C4's case: a text with letters was cut into several chunks at a separator,
\* which the chunks no longer hold.
C4_Witness ==
    /\ phase = "recursive"
    /\ Len(chunks) >= 2
    /\ Len(NonSeparatorChars(text)) >= 2
    /\ ~IsSubsequence(text, Concat(chunks))

\* C5: window i of CharacterTextSplitter.split is the substring of the text at
\* offset i*(chunk_size - chunk_overlap), and every window except the final
\* one has length exactly chunk_size.
C5_OnlyFinalWindowShorter ==
    phase = "character" =>
        \A n \in 1..Len(chunks) :
            LET offset == (n - 1) * (chunk_size - chunk_overlap)
            IN  /\ offset + Len(chunks[n]) <= Len(text)
                /\ chunks[n] = SubSeq(text, offset + 1, offset + Len(chunks[n]))
                /\ n < Len(chunks) => Len(chunks[n]) = chunk_size

\* C10: every chunk RecursiveTextSplitter.split returns is a contiguous
\* substring of the input, and the chunks come in non-decreasing order of
\* their place in the input.
C10_ChunksAreSubstringsInOrder ==
    phase = "recursive" => InOrderSubstrings(text, chunks, 1, 1)

\* the chunks from position p on come in runs, one run per source: a run is
\* total_chunks chunks with chunk_index 0, 1, ..., total_chunks - 1
RECURSIVE IndexRuns(_, _)
IndexRuns(out, p) ==
    IF p > Len(out) THEN TRUE
    ELSE LET total == out[p].metadata["total_chunks"]
         IN  /\ total >= 1
             /\ p + total - 1 <= Len(out)
             /\ \A j \in 0..(total - 1) :
                    /\ out[p + j].metadata["chunk_index"] = j
                    /\ out[p + j].metadata["total_chunks"] = total
             /\ IndexRuns(out, p + total)

\* the positions of the chunks that carry the source identifier src
PositionsOf(out, src) == {p \in 1..Len(out) : out[p].metadata["source"] = src}

\* the sources have pairwise different identifiers
DistinctSources ==
    \A i, j \in 1..Len(EffectiveMetadatas) :
        EffectiveMetadatas[i]["source"] = EffectiveMetadatas[j]["source"] => i = j

\* C6: the chunks split_texts_with_metadata emits for each source carry
\* chunk_index 0, 1, ..., total_chunks - 1 in output order, total_chunks is the
\* number of chunks emitted for that source, and chunk_index < total_chunks.
C6_ChunkIndexRange ==
    phase \in {"character", "recursive"} =>
        /\ \A p \in 1..Len(chunks_with_metadata) :
               /\ chunks_with_metadata[p].metadata["chunk_index"] >= 0
               /\ chunks_with_metadata[p].metadata["chunk_index"]
                      < chunks_with_metadata[p].metadata["total_chunks"]
        /\ IndexRuns(chunks_with_metadata, 1)
        /\ DistinctSources =>
               \A s \in 1..Len(texts) :
                   LET at == PositionsOf(chunks_with_metadata,
                                         EffectiveMetadatas[s]["source"])
                   IN  \A p \in at :
                           /\ chunks_with_metadata[p].metadata["total_chunks"]
                                  = Cardinality(at)
                           /\ chunks_with_metadata[p].metadata["chunk_index"]
                                  = Cardinality({q \in at : q < p})

\* C6's case: two sources, the first one split into several chunks
C6_Witness ==
    /\ phase \in {"character", "recursive"}
    /\ Len(texts) = 2
    /\ DistinctSources
    /\ Len(chunks_with_metadata) >= 3
    /\ chunks_with_metadata[1].metadata["total_chunks"] >= 2
    /\ chunks_with_metadata[Len(chunks_with_metadata)].metadata["source"]
           # chunks_with_metadata[1].metadata["source"]

\* ------------------------------------------------------------------ properties of the store

\* the keys insert() was called with
LoggedKeys == {insert_log[n].key : n \in 1..Len(insert_log)}

\* the positions in the history of the inserts of key
InsertsOf(key) == {n \in 1..Len(insert_log) : insert_log[n].key = key}

\* the most recent insert of key
LastInsertOf(key) ==
    insert_log[CHOOSE n \in InsertsOf(key) : \A m \in InsertsOf(key) : m <= n]

\* when key was first inserted
FirstInsertIndex(key) ==
    CHOOSE n \in InsertsOf(key) : \A m \in InsertsOf(key) : n <= m

\* C2: the metadata search(..., return_metadata=True) reports for a key is the
\* metadata of the most recent insert of that key, and is empty when that
\* insert supplied none: an earlier insert's metadata never survives.
C2_MetadataLastWriteWins ==
    (returned.op = "search" /\ returned.return_metadata) =>
        \A n \in 1..Len(returned.results) :
            LET last == LastInsertOf(returned.results[n].key)
            IN  returned.results[n].metadata =
                    (IF last.metadata = None THEN EmptyDict ELSE last.metadata[1])

\* a >= b on floats
FloatAtLeast(a, b) == ~a.nan /\ ~b.nan /\ a.value >= b.value

\* the results of the last search are min(k, number of stored keys) many,
\* each a stored key with the score of its stored vector, no key twice, in
\* non-increasing order of score, keys of equal score in the order in which
\* they were first inserted
RankedResults ==
    LET results == returned.results
    IN  /\ Len(results) = Min(returned.k, Cardinality(LoggedKeys))
        /\ \A n \in 1..Len(results) :
               /\ results[n].key \in LoggedKeys
               /\ results[n].score =
                      cosine_similarity(returned.query_vector,
                                        LastInsertOf(results[n].key).vector)
        /\ \A i, j \in 1..Len(results) :
               i < j =>
                   /\ results[i].key # results[j].key
                   /\ FloatAtLeast(results[i].score, results[j].score)
                   /\ FloatEqual(results[i].score, results[j].score) =>
                          FirstInsertIndex(results[i].key)
                              < FirstInsertIndex(results[j].key)

\* the query vector and every stored vector have a norm other than zero
NonZeroVectors ==
    /\ Dot(returned.query_vector, returned.query_vector) # 0
    /\ \A key \in LoggedKeys :
           Dot(LastInsertOf(key).vector, LastInsertOf(key).vector) # 0

\* C3: for any store contents, any query vector and any k >= 0, search
\* returns exactly min(k, number of stored keys) results, each stored key at
\* most once, in non-increasing order of score, keys of equal score in the
\* order in which they were inserted; a k beyond the number of records
\* returns all.
C3_SearchRanking ==
    returned.op = "search" => RankedResults

\* C3 as amended: the same, for a query vector and stored vectors of norm
\* other than zero (with a vector of norm zero the scores are not-a-number
\* and the results are in no order).
C3_SearchRankingOfNonZeroVectors ==
    (returned.op = "search" /\ NonZeroVectors) => RankedResults

\* C3's case: a search with k beyond the three stored keys, two of which tie
\* and one of which scores less
C3_Witness ==
    /\ returned.op = "search"
    /\ NonZeroVectors
    /\ returned.k > Cardinality(LoggedKeys)
    /\ Len(returned.results) = 3
    /\ FloatEqual(returned.results[1].score, returned.results[2].score)
    /\ FloatLess(returned.results[3].score, returned.results[2].score)

\* C7: retrieve_from_key(key) returns the vector of the most recent insert of
\* key, and None, without raising, for a key never inserted; lookups add no
\* key and change no vector: the store holds what the inserts alone left.
C7_RetrieveRoundTrip ==
    /\ returned.op = "retrieve" =>
           /\ "raised" \notin DOMAIN returned
           /\ returned.value =
                  (IF returned.key \in LoggedKeys
                   THEN Some(LastInsertOf(returned.key).vector) ELSE None)
    /\ {vectors[n].key : n \in 1..Len(vectors)} = LoggedKeys
    /\ \A n \in 1..Len(vectors) :
           vectors[n].value = LastInsertOf(vectors[n].key).vector

\* C7's case: a lookup of a key inserted twice, with different vectors, and
\* never-inserted keys beside it
C7_Witness ==
    /\ returned.op = "retrieve"
    /\ Cardinality(InsertsOf(returned.key)) >= 2
    /\ insert_log[FirstInsertIndex(returned.key)].vector
           # LastInsertOf(returned.key).vector
    /\ returned.value = Some(LastInsertOf(returned.key).vector)
    /\ LoggedKeys # StoreKeys

\* ------------------------------------------------------------------ properties of the build

\* C8: a call of abuild_from_list or abuild_from_list_with_metadata makes
\* exactly one batch call to the embedding model and no single-text call;
\* the store is as it was at the call until the awaited call has resolved and
\* the coroutine runs again; once the build has returned, every text of the
\* list is a key of the store, mapped to the vector returned for it.
C8_OneBatchCallThenInserts ==
    /\ build_pc # "idle" => embedding_calls = [batch |-> 1, single |-> 0]
    /\ build_pc \in {"awaiting", "resolved"} => <<vectors, metadata>> = store_at_call
    /\ build_pc = "returned" =>
           \A n \in 1..Len(TextsOf(build_call)) :
               /\ DictHas(vectors, TextsOf(build_call)[n])
               /\ DictAt(vectors, TextsOf(build_call)[n]) = embeddings[1][n]

\* C8's case: a build of two different texts with metadata has returned, on
\* a store an earlier build had filled
C8_Witness ==
    /\ build_pc = "returned"
    /\ build_call.op = "abuild_from_list_with_metadata"
    /\ Len(build_call.items) = 2
    /\ build_call.items[1].text # build_call.items[2].text
    /\ store_at_call[1] # <<>>
    /\ Len(vectors) = 2

\* ------------------------------------------------------------------ properties of the threads

\* the store after the inserts of the history from number n on, one at a time
RECURSIVE ReplayInserts(_, _, _)
ReplayInserts(vs, md, n) ==
    IF n > Len(insert_log) THEN <<vs, md>>
    ELSE ReplayInserts(
             insert_vector(vs, insert_log[n].key, insert_log[n].vector),
             insert_metadata(md, insert_log[n].key, insert_log[n].metadata),
             n + 1)

\* a lookup concurrent with inserts does not raise and returns None or a
\* vector inserted for the key
RetrieveSeesInsertedValue ==
    returned.op = "retrieve" =>
        /\ "raised" \notin DOMAIN returned
        /\ \/ returned.value = None
           \/ \E m \in InsertsOf(returned.key) :
                  returned.value = Some(insert_log[m].vector)

\* every vector a search has scored is one inserted for its key
SearchSeesInsertedValues ==
    reader.pc \in {"iterating", "done"} =>
        \A n \in 1..Len(reader.used) :
            \E m \in InsertsOf(reader.used[n].key) :
                insert_log[m].vector = reader.used[n].value

\* with no insert under way the store holds what the inserts alone leave
StoreIsInsertsAlone ==
    writer.pc = "idle" => <<vectors, metadata>> = ReplayInserts(<<>>, EmptyDict, 1)

\* C9: with search or retrieve_from_key running while insert runs, in any
\* interleaving of their steps, the read never fails, every vector it uses
\* for a key is one an insert stored for that key, and the store ends up with
\* the contents the inserts alone would leave.
C9_ConcurrentReadsConsistent ==
    /\ reader.pc # "RuntimeError"
    /\ RetrieveSeesInsertedValue
    /\ SearchSeesInsertedValues
    /\ StoreIsInsertsAlone

\* ----------------------------------------------- properties of _merge_splits

\* the pieces that seed the chunk begun by the last iteration: current_chunk
\* without the split the iteration appended
Seed == SubSeq(merge.current_chunk, 1, Len(merge.current_chunk) - 1)

\* the iterations of the loop build the chunks that _merge_splits returns
MergeStepsReturnMergeSplits ==
    merge.pc = "returned" =>
        merge.chunks = _merge_splits(merge.splits, merge.separator,
                                     chunk_size, chunk_overlap)

\* C11: whenever _merge_splits closes a chunk, the pieces that seed the next
\* chunk are a contiguous suffix of the closed chunk's pieces, taken from the
\* end, whose length joined with the separator is at most chunk_overlap; no
\* piece longer than chunk_overlap is carried over, and with chunk_overlap = 0
\* the seed is empty.
C11_SeedIsSuffixWithinOverlap ==
    merge.closing =>
        /\ Len(Seed) <= Len(merge.closed)
        /\ Seed = SubSeq(merge.closed, Len(merge.closed) - Len(Seed) + 1,
                         Len(merge.closed))
        /\ Len(Join(merge.separator, Seed)) <= chunk_overlap
        /\ \A n \in 1..Len(Seed) : Len(Seed[n]) <= chunk_overlap
        /\ chunk_overlap = 0 => Seed = <<>>

\* C11's case: a chunk of three pieces or more is closed and the next chunk
\* is seeded with some of its pieces, more than one and not all
C11_Witness ==
    /\ merge.closing
    /\ Len(merge.closed) >= 3
    /\ Len(Seed) >= 2
    /\ Len(Seed) < Len(merge.closed)

====
